---------------------------- MODULE Spec2Model ----------------------------
(***************************************************************************)
(* A model of the ts-safe-cast runtime (src/index.ts): the structural      *)
(* matcher `walk`, the error constructor `fail`, and the public surface    *)
(* is / cast / createIs / createCast; and of the producer of Shapes,       *)
(* handleCall of src/transformer.ts.  walk is modelled twice: as a         *)
(* recursive operator, and one step at a time (the tuple case alone, and   *)
(* the whole of walk as a stack of calls).                                 *)
(*                                                                         *)
(* JavaScript values (the data under validation and the Shape, which is a  *)
(* plain JS value made of numbers, strings, booleans and arrays) are       *)
(* pairs <<tag, payload>>; the tag decides what the payload is.            *)
(***************************************************************************)
EXTENDS Integers, Sequences, FiniteSets

VARIABLES
    fn,       \* the entry point last called: "none", "is", "cast", "createIs", "createCast"
    data,     \* the data argument of that call, as it is after the call
    shape,    \* the Shape argument of that call, as it is after the call
    outcome,  \* how the call ended: [kind, value, error]
    bound,    \* the functions createIs / createCast have returned: [fn, shape]
    transform, \* the last run of the transformer: [table, type, seen]
    matcher,  \* the tuple case of walk, between its steps:
              \* [pc, d, items, i, min, max, result, failed]
    walker    \* a run of validate, between its steps: [status, d, root, stack, ret]

vars == <<fn, data, shape, outcome, bound, transform, matcher, walker>>

-----------------------------------------------------------------------------
(* JavaScript values *)

Tag(x) == x[1]
Payload(x) == x[2]

Undefined == <<"undefined", <<>>>>
Null == <<"null", <<>>>>
Bool(b) == <<"boolean", b>>
Num(n) == <<"number", n>>
Str(s) == <<"string", s>>
BigInt(n) == <<"bigint", n>>
Sym(s) == <<"symbol", s>>
\* a built-in function object, such as the methods a plain object inherits
Fn(name) == <<"function", name>>
\* an Array: the payload is the sequence of its elements
Arr(elems) == <<"array", elems>>
\* a plain object: the payload is the sequence of its own properties <<key, value>>,
\* in property-creation order
Obj(props) == <<"object", props>>
\* a Date instance
DateObj(ms) == <<"date", ms>>

\* the typeof operator
TypeOf(x) ==
    CASE Tag(x) = "undefined" -> "undefined"
      [] Tag(x) = "null" -> "object"
      [] Tag(x) = "array" -> "object"
      [] Tag(x) = "object" -> "object"
      [] Tag(x) = "date" -> "object"
      [] OTHER -> Tag(x)

\* ToBoolean, as `!data` and `if(type)` apply it
Truthy(x) ==
    CASE Tag(x) = "undefined" -> FALSE
      [] Tag(x) = "null" -> FALSE
      [] Tag(x) = "boolean" -> Payload(x)
      [] Tag(x) = "number" -> Payload(x) # 0
      [] Tag(x) = "bigint" -> Payload(x) # 0
      [] Tag(x) = "string" -> Payload(x) # ""
      [] OTHER -> TRUE

\* `x == null`
LooseEqualsNull(x) == Tag(x) \in {"undefined", "null"}

\* `a === b`: primitives by type and value; the objects compared here (a
\* datum against a Shape's literal) are never the same object
StrictEquals(a, b) ==
    /\ Tag(a) = Tag(b)
    /\ Tag(a) \in {"undefined", "null", "boolean", "number", "string", "bigint"}
    /\ Payload(a) = Payload(b)

\* the decimal string of a small non-negative integer (Number::toString)
Digits == <<"0", "1", "2", "3", "4", "5", "6", "7", "8", "9", "10", "11", "12">>
NumberToString(n) == IF n \in 0..(Len(Digits) - 1) THEN Digits[n + 1] ELSE "NaN"

\* the properties every ordinary object inherits from Object.prototype
ObjectPrototypeKeys ==
    {"constructor", "toString", "toLocaleString", "valueOf", "hasOwnProperty",
     "isPrototypeOf", "propertyIsEnumerable"}

OwnKeys(x) ==
    CASE Tag(x) = "object" -> {Payload(x)[i][1] : i \in 1..Len(Payload(x))}
      [] Tag(x) = "array" -> {NumberToString(i - 1) : i \in 1..Len(Payload(x))} \cup {"length"}
      [] OTHER -> {}

OwnValue(x, key) ==
    CASE Tag(x) = "object" ->
            LET i == CHOOSE j \in 1..Len(Payload(x)) : Payload(x)[j][1] = key IN Payload(x)[i][2]
      [] Tag(x) = "array" ->
            IF key = "length" THEN Num(Len(Payload(x)))
            ELSE LET i == CHOOSE j \in 1..Len(Payload(x)) : NumberToString(j - 1) = key
                 IN Payload(x)[i]

\* `key in x`, for x an object: own properties and the prototype chain
HasProperty(x, key) == key \in OwnKeys(x) \/ key \in ObjectPrototypeKeys

\* `x[key]`: [thrown |-> TRUE] is the TypeError of reading a property of
\* undefined or null; a missing property reads as undefined
Get(x, key) ==
    IF Tag(x) \in {"undefined", "null"} THEN [thrown |-> TRUE, value |-> Undefined]
    ELSE IF key \in OwnKeys(x) THEN [thrown |-> FALSE, value |-> OwnValue(x, key)]
    ELSE IF Tag(x) \in {"object", "array", "date", "function"} /\ key \in ObjectPrototypeKeys
         THEN [thrown |-> FALSE, value |-> Fn(key)]
    ELSE IF Tag(x) = "string" /\ key = "0" /\ Payload(x) # ""
         THEN [thrown |-> FALSE, value |-> Str("char")]
    ELSE [thrown |-> FALSE, value |-> Undefined]

\* x[i] for an integer index i
At(x, i) == Get(x, NumberToString(i))

\* the keys `for(const key in x)` visits, in order: the own enumerable
\* properties (the inherited ones are not enumerable)
ForInKeys(x) ==
    CASE Tag(x) = "object" -> [i \in 1..Len(Payload(x)) |-> Payload(x)[i][1]]
      [] Tag(x) = "array" -> [i \in 1..Len(Payload(x)) |-> NumberToString(i - 1)]
      [] OTHER -> <<>>

RECURSIVE ToStr(_)
RECURSIVE JoinFrom(_, _)

\* Array.prototype.join over elems[i..]; null and undefined elements print
\* as the empty string
JoinFrom(elems, i) ==
    IF i > Len(elems) THEN [thrown |-> FALSE, text |-> <<>>]
    ELSE LET head == IF Tag(elems[i]) \in {"undefined", "null"}
                     THEN [thrown |-> FALSE, text |-> <<>>]
                     ELSE ToStr(elems[i])
             rest == JoinFrom(elems, i + 1)
         IN  IF head.thrown \/ rest.thrown THEN [thrown |-> TRUE, text |-> <<>>]
             ELSE [thrown |-> FALSE,
                   text |-> head.text \o (IF i < Len(elems) THEN <<",">> ELSE <<>>)
                            \o rest.text]

\* ToString as a template literal applies it; text is the string, as the
\* sequence of its pieces. A Symbol cannot be converted (TypeError). An
\* object is converted by calling its toString and then its valueOf: when
\* x.toString is not a function (an own data property shadows the inherited
\* method) the conversion falls to valueOf, which yields no primitive (the
\* inherited one returns the object itself), and ends in a TypeError.
ToStr(x) ==
    CASE Tag(x) = "undefined" -> [thrown |-> FALSE, text |-> <<"undefined">>]
      [] Tag(x) = "null" -> [thrown |-> FALSE, text |-> <<"null">>]
      [] Tag(x) = "boolean" ->
            [thrown |-> FALSE, text |-> <<IF Payload(x) THEN "true" ELSE "false">>]
      [] Tag(x) = "number" -> [thrown |-> FALSE, text |-> <<NumberToString(Payload(x))>>]
      [] Tag(x) = "bigint" -> [thrown |-> FALSE, text |-> <<NumberToString(Payload(x))>>]
      [] Tag(x) = "string" -> [thrown |-> FALSE, text |-> <<Payload(x)>>]
      [] Tag(x) = "symbol" -> [thrown |-> TRUE, text |-> <<>>]
      [] Tag(x) = "function" ->
            [thrown |-> FALSE, text |-> <<"function ", Payload(x), "() { [native code] }">>]
      [] Tag(x) = "date" -> [thrown |-> FALSE, text |-> <<"Date(", NumberToString(Payload(x)), ")">>]
      [] Tag(x) = "array" -> JoinFrom(Payload(x), 1)
      [] Tag(x) = "object" ->
            IF Tag(Get(x, "toString").value) = "function"
            THEN [thrown |-> FALSE, text |-> <<"[object Object]">>]
            ELSE [thrown |-> TRUE, text |-> <<>>]


-----------------------------------------------------------------------------
(* The Shape encoding (src/types.ts) *)

Types_String == 0
Types_Number == 1
Types_Boolean == 2
Types_Unknown == 3
Types_Bigint == 4
Types_Object == 5
Types_Array == 6
Types_Tuple == 7
Types_Literal == 8
Types_Union == 9
Types_Intersection == 10
Types_Date == 11
Types_Reference == 12

ObjectMembers_Property == 0
ObjectMembers_IndexSignature == 1

TupleElementType_Optional == 1
TupleElementType_Variable == 2

\* Shape values, as the transformer's `format` and `objectMember` lay them out
LeafShape(kind) == Num(kind)
ObjectShape(members) == Arr(<<Num(Types_Object)>> \o members)
Property(key, valueShape) == Arr(<<Num(ObjectMembers_Property), Str(key), valueShape>>)
OptionalProperty(key, valueShape) ==
    Arr(<<Num(ObjectMembers_Property), Str(key), valueShape, Bool(TRUE)>>)
IndexSignature(valueShape) == Arr(<<Num(ObjectMembers_IndexSignature), valueShape>>)
ArrayShape(element) == Arr(<<Num(Types_Array), element>>)
TupleShape(items) == Arr(<<Num(Types_Tuple)>> \o items)
RequiredItem(itemShape) == Arr(<<itemShape>>)
OptionalItem(itemShape) == Arr(<<itemShape, Num(TupleElementType_Optional)>>)
VariableItem(itemShape) == Arr(<<itemShape, Num(TupleElementType_Variable)>>)
LiteralShape(value) == Arr(<<Num(Types_Literal), value>>)
UnionShape(options) == Arr(<<Num(Types_Union)>> \o options)
IntersectionShape(members) == Arr(<<Num(Types_Intersection)>> \o members)
ReferenceShape(rootPath) ==
    Arr(<<Num(Types_Reference)>> \o [i \in 1..Len(rootPath) |-> Num(rootPath[i])])

-----------------------------------------------------------------------------
(* Errors and the results of walk *)

NoError == [kind |-> "none", path |-> <<>>, expected |-> <<>>, got |-> <<>>, branches |-> <<>>]

\* new ParserError(`Expected ${path} to be ${expected}, got ${data}`); path is
\* the dotted path as the sequence of its segments
ParserError(path, expected, got) ==
    [kind |-> "ParserError", path |-> path, expected |-> expected, got |-> got,
     branches |-> <<>>]

\* the ParserError of a Union none of whose branches matched; branches are
\* the errors of the options, in the order they were pushed
UnionError(path, errors) ==
    [kind |-> "ParserError", path |-> path, expected |-> <<"a union">>, got |-> <<>>,
     branches |-> errors]

\* the TypeError the language raises (a failed string conversion, a property
\* read of undefined)
TypeError == [kind |-> "TypeError", path |-> <<>>, expected |-> <<>>, got |-> <<>>,
              branches |-> <<>>]

\* new Error('Please ensure that the ts-safe-cast transformer is run.')
TransformerError == [kind |-> "Error", path |-> <<>>, expected |-> <<>>, got |-> <<>>,
                     branches |-> <<>>]

\* walk returned undefined
Matched == [r |-> "ok", error |-> NoError]
\* walk returned a ParserError
Mismatch(error) == [r |-> "error", error |-> error]
\* walk did not return: an exception left it
Thrown(error) == [r |-> "throw", error |-> error]

\* fail(path, expected, data); the template literal converts data to a string,
\* and that conversion may throw
fail(path, expected, d) ==
    LET got == ToStr(d)
    IN  IF got.thrown THEN Thrown(TypeError)
        ELSE Mismatch(ParserError(path, expected, got.text))


-----------------------------------------------------------------------------
(* validate and its inner function walk (src/index.ts lines 9-126) *)

IsKind(x, kind) == StrictEquals(x, Num(kind))

\* the path of a member or element: `${path}.${key}`
SubPath(path, key) == Append(path, key)

RECURSIVE walk(_, _, _, _)
RECURSIVE walkProperties(_, _, _, _, _)
RECURSIVE walkIndexSignature(_, _, _, _, _, _)
RECURSIVE walkElements(_, _, _, _, _)
RECURSIVE walkOptionalOrVariable(_, _, _, _, _, _)
RECURSIVE walkRequired(_, _, _, _, _, _)
RECURSIVE walkItems(_, _, _, _, _, _, _)
RECURSIVE walkOptions(_, _, _, _, _, _)
RECURSIVE walkMembers(_, _, _, _, _)
RECURSIVE resolve(_, _, _)
RECURSIVE walkReference(_, _, _, _)

\* walkProperty with the presence test written over the own properties only
\* (Object.hasOwn in place of `in`)
walkPropertyOwnKeys(object, property, path, root) ==
    LET key == Payload(At(property, 1).value)
        newPath == SubPath(path, key)
    IN  IF key \notin OwnKeys(object)
        THEN IF Truthy(At(property, 3).value) THEN Matched
             ELSE fail(newPath, <<"defined">>, Str("undefined"))
        ELSE walk(Get(object, key).value, At(property, 2).value, newPath, root)

\* case ObjectMembers.Property (lines 40-49)
walkProperty(object, property, path, root) ==
    LET key == Payload(At(property, 1).value)
        newPath == SubPath(path, key)
    IN  IF ~HasProperty(object, key)
        THEN IF Truthy(At(property, 3).value) THEN Matched
             ELSE fail(newPath, <<"defined">>, Str("undefined"))
        ELSE walk(Get(object, key).value, At(property, 2).value, newPath, root)

\* case ObjectMembers.IndexSignature (lines 50-54): keys[i..] are the keys
\* the for-in loop has yet to visit
walkIndexSignature(object, property, keys, i, path, root) ==
    IF i > Len(keys) THEN Matched
    ELSE LET error == walk(Get(object, keys[i]).value, At(property, 1).value,
                           SubPath(path, keys[i]), root)
         IN  IF error.r # "ok" THEN error
             ELSE walkIndexSignature(object, property, keys, i + 1, path, root)

\* walkProperties with the for-in loop of the IndexSignature case passing
\* over the keys a Property member of the shape names
walkPropertiesSkipNamedKeys(object, properties, i, path, root) ==
    IF i > Len(properties) THEN Matched
    ELSE LET property == properties[i]
             kind == At(property, 0).value
             named == {Payload(At(properties[j], 1).value) :
                          j \in {n \in 1..Len(properties) :
                                    IsKind(At(properties[n], 0).value, ObjectMembers_Property)}}
             error ==
                 IF IsKind(kind, ObjectMembers_Property)
                 THEN walkProperty(object, property, path, root)
                 ELSE IF IsKind(kind, ObjectMembers_IndexSignature)
                 THEN walkIndexSignature(object, property,
                          SelectSeq(ForInKeys(object), LAMBDA k : k \notin named),
                          1, path, root)
                 ELSE Matched
         IN  IF error.r # "ok" THEN error
             ELSE walkProperties(object, properties, i + 1, path, root)

\* for(const property of properties) (lines 38-56), from the i-th on
walkProperties(object, properties, i, path, root) ==
    IF i > Len(properties) THEN Matched
    ELSE LET property == properties[i]
             kind == At(property, 0).value
             error ==
                 IF IsKind(kind, ObjectMembers_Property)
                 THEN walkProperty(object, property, path, root)
                 ELSE IF IsKind(kind, ObjectMembers_IndexSignature)
                 THEN walkIndexSignature(object, property, ForInKeys(object), 1, path, root)
                 ELSE Matched
         IN  IF error.r # "ok" THEN error
             ELSE walkProperties(object, properties, i + 1, path, root)

\* walkElements going on after a failure and returning the last one
walkElementsLastFailure(d, element, i, path, root) ==
    IF ~(i < Len(Payload(d))) THEN Matched
    ELSE LET error == walk(At(d, i).value, element, SubPath(path, NumberToString(i)), root)
             rest == walkElements(d, element, i + 1, path, root)
         IN  IF error.r = "throw" THEN error
             ELSE IF rest.r # "ok" THEN rest
             ELSE error

\* for(let i = 0; i < data.length; ++i) (lines 61-64)
walkElements(d, element, i, path, root) ==
    IF ~(i < Len(Payload(d))) THEN Matched
    ELSE LET error == walk(At(d, i).value, element, SubPath(path, NumberToString(i)), root)
         IN  IF error.r # "ok" THEN error
             ELSE walkElements(d, element, i + 1, path, root)

\* walkOptionalOrVariable with the loop left after one element whatever the
\* modifier: a Variable item then takes at most one element
walkVariableOnce(d, itemShape, type, max, path, root) ==
    IF ~(max < Len(Payload(d))) THEN [r |-> "ok", error |-> NoError, max |-> max]
    ELSE LET error == walk(At(d, max).value, itemShape,
                           SubPath(path, NumberToString(max)), root)
         IN  IF error.r = "throw" THEN [r |-> "throw", error |-> error.error, max |-> max]
             ELSE [r |-> "ok", error |-> NoError,
                   max |-> IF error.r = "ok" THEN max + 1 ELSE max]

\* an Optional or Variable item: for(; max < data.length;) (lines 73-77).
\* The result carries the cursors as the item leaves them.
walkOptionalOrVariable(d, itemShape, type, max, path, root) ==
    IF ~(max < Len(Payload(d))) THEN [r |-> "ok", error |-> NoError, max |-> max]
    ELSE LET error == walk(At(d, max).value, itemShape,
                           SubPath(path, NumberToString(max)), root)
             newMax == IF error.r = "ok" THEN max + 1 ELSE max
         IN  IF error.r = "throw" THEN [r |-> "throw", error |-> error.error, max |-> max]
             ELSE IF error.r = "error" \/ IsKind(type, TupleElementType_Optional)
             THEN [r |-> "ok", error |-> NoError, max |-> newMax]
             ELSE walkOptionalOrVariable(d, itemShape, type, newMax, path, root)

\* a Required item: for(;;) (lines 79-87)
walkRequired(d, itemShape, min, max, path, root) ==
    LET error == walk(At(d, min).value, itemShape, SubPath(path, NumberToString(min)), root)
        newMin == min + 1
    IN  IF error.r = "throw"
        THEN [r |-> "throw", error |-> error.error, min |-> min, max |-> max]
        ELSE IF error.r = "ok"
        THEN [r |-> "ok", error |-> NoError, min |-> newMin,
              max |-> IF newMin >= max THEN newMin ELSE max]
        ELSE IF newMin > max
        THEN [r |-> "error", error |-> error.error, min |-> newMin, max |-> max]
        ELSE walkRequired(d, itemShape, newMin, max, path, root)

\* walkItems without the check of line 90: elements left over after the last
\* item go unnoticed
walkItemsNoTrailingCheck(d, items, i, min, max, path, root) ==
    IF i > Len(items) THEN Matched
    ELSE LET itemShape == At(items[i], 0).value
             type == At(items[i], 1).value
         IN  IF Truthy(type)
             THEN LET res == walkOptionalOrVariable(d, itemShape, type, max, path, root)
                  IN  IF res.r = "throw" THEN Thrown(res.error)
                      ELSE walkItems(d, items, i + 1, min, res.max, path, root)
             ELSE LET res == walkRequired(d, itemShape, min, max, path, root)
                  IN  IF res.r = "throw" THEN Thrown(res.error)
                      ELSE IF res.r = "error" THEN Mismatch(res.error)
                      ELSE walkItems(d, items, i + 1, res.min, res.max, path, root)

\* for(const [shape, type] of items) (lines 71-89) from the i-th item on,
\* then the check of line 90
walkItems(d, items, i, min, max, path, root) ==
    IF i > Len(items)
    THEN IF max < Len(Payload(d)) THEN fail(path, <<"a tuple">>, d) ELSE Matched
    ELSE LET itemShape == At(items[i], 0).value
             type == At(items[i], 1).value
         IN  IF Truthy(type)
             THEN LET res == walkOptionalOrVariable(d, itemShape, type, max, path, root)
                  IN  IF res.r = "throw" THEN Thrown(res.error)
                      ELSE walkItems(d, items, i + 1, min, res.max, path, root)
             ELSE LET res == walkRequired(d, itemShape, min, max, path, root)
                  IN  IF res.r = "throw" THEN Thrown(res.error)
                      ELSE IF res.r = "error" THEN Mismatch(res.error)
                      ELSE walkItems(d, items, i + 1, res.min, res.max, path, root)

\* const [_, ...items] = shape (line 68)
ItemsOfShape(s) == Tail(Payload(s))

\* for(const option of options) (lines 99-104); errors are those pushed so far
walkOptions(d, options, i, errors, path, root) ==
    IF i > Len(options) THEN Mismatch(UnionError(path, errors))
    ELSE LET error == walk(d, options[i], path, root)
         IN  IF error.r = "ok" THEN Matched
             ELSE IF error.r = "throw" THEN error
             ELSE walkOptions(d, options, i + 1, Append(errors, error.error), path, root)

\* for(const member of members) (lines 108-112)
walkMembers(d, members, i, path, root) ==
    IF i > Len(members) THEN Matched
    ELSE LET error == walk(d, members[i], path, root)
         IN  IF error.r # "ok" THEN error
             ELSE walkMembers(d, members, i + 1, path, root)

\* the loop of lines 116-119: target = target[rootPath[i]], from the i-th
\* index on; reading a property of undefined throws
resolve(target, rootPath, i) ==
    IF i > Len(rootPath) THEN [thrown |-> FALSE, value |-> target]
    ELSE LET next == Get(target, NumberToString(Payload(rootPath[i])))
         IN  IF next.thrown THEN next ELSE resolve(next.value, rootPath, i + 1)

\* walkReference with the target validated from the path 'root', the place of
\* the target in the shape, in place of the caller's path
walkReferenceFromRootPath(d, s, path, root) ==
    LET target == resolve(root, Tail(Payload(s)), 1)
    IN  IF target.thrown THEN Thrown(TypeError)
        ELSE walk(d, target.value, <<"root">>, root)

\* case Types.Reference (lines 114-121): the target is validated with the
\* caller's data and path
walkReference(d, s, path, root) ==
    LET target == resolve(root, Tail(Payload(s)), 1)
    IN  IF target.thrown THEN Thrown(TypeError)
        ELSE walk(d, target.value, path, root)

\* walk(data, shape, path) of validate(data, root)
walk(d, s, path, root) ==
    IF IsKind(s, Types_String)
    THEN IF TypeOf(d) = "string" THEN Matched ELSE fail(path, <<"a string">>, d)
    ELSE IF IsKind(s, Types_Number)
    THEN IF TypeOf(d) = "number" THEN Matched ELSE fail(path, <<"a number">>, d)
    ELSE IF IsKind(s, Types_Boolean)
    THEN IF TypeOf(d) = "boolean" THEN Matched ELSE fail(path, <<"a boolean">>, d)
    ELSE IF IsKind(s, Types_Unknown)
    THEN Matched
    ELSE IF IsKind(s, Types_Bigint)
    THEN IF TypeOf(d) = "bigint" THEN Matched ELSE fail(path, <<"a bigint">>, d)
    ELSE IF IsKind(s, Types_Date)
    THEN IF Tag(d) = "date" THEN Matched ELSE fail(path, <<"a date">>, d)
    ELSE LET kind == At(s, 0)
         IN  IF kind.thrown THEN Thrown(TypeError)
             ELSE IF IsKind(kind.value, Types_Object)
             THEN IF ~Truthy(d) \/ TypeOf(d) # "object"
                  THEN fail(path, <<"an object">>, d)
                  ELSE walkProperties(d, Tail(Payload(s)), 1, path, root)
             ELSE IF IsKind(kind.value, Types_Array)
             THEN IF Tag(d) # "array" THEN fail(path, <<"an array">>, d)
                  ELSE walkElements(d, At(s, 1).value, 0, path, root)
             ELSE IF IsKind(kind.value, Types_Tuple)
             THEN IF Tag(d) # "array" THEN fail(path, <<"a tuple">>, d)
                  ELSE walkItems(d, Tail(Payload(s)), 1, 0, 0, path, root)
             ELSE IF IsKind(kind.value, Types_Literal)
             THEN IF StrictEquals(d, At(s, 1).value) THEN Matched
                  ELSE LET expected == ToStr(At(s, 1).value)
                       IN  IF expected.thrown THEN Thrown(TypeError)
                           ELSE fail(path, expected.text, d)
             ELSE IF IsKind(kind.value, Types_Union)
             THEN walkOptions(d, Tail(Payload(s)), 1, <<>>, path, root)
             ELSE IF IsKind(kind.value, Types_Intersection)
             THEN walkMembers(d, Tail(Payload(s)), 1, path, root)
             ELSE IF IsKind(kind.value, Types_Reference)
             THEN walkReference(d, s, path, root)
             ELSE Matched

\* validate with the guard written `!root`: the leaf String, whose encoding is
\* 0, then counts as a missing shape
validateFalsyRoot(d, root) ==
    IF ~Truthy(root) THEN Thrown(TransformerError)
    ELSE walk(d, root, <<"root">>, root)

\* validate(data, root): a thrown Error when root == null, else walk's result
validate(d, root) ==
    IF LooseEqualsNull(root) THEN Thrown(TransformerError)
    ELSE walk(d, root, <<"root">>, root)


-----------------------------------------------------------------------------
(* The public surface (src/index.ts lines 128-144) *)

NoValue == <<"none", <<>>>>

Return(value) == [kind |-> "return", value |-> value, error |-> NoError]
Throw(error) == [kind |-> "throw", value |-> NoValue, error |-> error]
NoOutcome == [kind |-> "none", value |-> NoValue, error |-> NoError]

\* is(data, shape): return !validate(data, shape)
is(d, s) ==
    LET error == validate(d, s)
    IN  IF error.r = "throw" THEN Throw(error.error)
        ELSE Return(Bool(error.r = "ok"))

\* cast(data, shape): throw validate's error, else return data
cast(d, s) ==
    LET error == validate(d, s)
    IN  IF error.r = "throw" THEN Throw(error.error)
        ELSE IF error.r = "error" THEN Throw(error.error)
        ELSE Return(d)

\* createIs(shape) returns (data) => is(data, shape); the closure is the
\* record of the function it calls and the shape it captured
createIs(s) == [fn |-> "is", shape |-> s]

\* createCast(shape) returns (data) => cast(data, shape)
createCast(s) == [fn |-> "cast", shape |-> s]

NoClosure == [fn |-> "none", shape |-> Undefined]

\* a call of a function createIs or createCast returned
callBound(closure, d) ==
    IF closure.fn = "is" THEN is(d, closure.shape) ELSE cast(d, closure.shape)


-----------------------------------------------------------------------------
(* walk, one step at a time *)

\* The calls of walk that have not returned are a stack of frames, the
\* innermost last. A frame holds the arguments of its call and where the call
\* is at: pc is "enter" before the dispatch of lines 13-33, then the loop the
\* call is in ("members" and "keys" for an Object, "elements" for an Array,
\* "item", "lookahead" and "required" for a Tuple, "options" for a Union,
\* "intersect" for an Intersection, "reference" for a Reference), with the
\* variables of that loop: i, the index of the element, member, item or
\* option; j, the index of the key of an index signature; min, max; errors.
Frame(d, s, path) ==
    [d |-> d, s |-> s, path |-> path, pc |-> "enter", i |-> 0, j |-> 0, min |-> 0, max |-> 0,
     errors |-> <<>>]

\* no call has returned since the last step
NoResult == [r |-> "none", error |-> NoError]

\* validate is not running
NoWalker == [status |-> "idle", d |-> Undefined, root |-> Undefined, stack |-> <<>>, ret |-> NoResult]

\* the run w with its innermost call moved on to the frame f
Goto(w, f) == [w EXCEPT !.stack[Len(w.stack)] = f, !.ret = NoResult]

\* the run w with its innermost call calling walk(d, s, path)
Call(w, d, s, path) == [w EXCEPT !.stack = Append(@, Frame(d, s, path)), !.ret = NoResult]

\* the run w with its innermost call returning (or throwing) result; the
\* return of the outermost call ends the run
ReturnWith(w, result) ==
    IF Len(w.stack) = 1
    THEN [w EXCEPT !.status = "done", !.stack = <<>>, !.ret = result]
    ELSE [w EXCEPT !.stack = SubSeq(@, 1, Len(@) - 1), !.ret = result]

\* the shape is one walk decides without a further call: a leaf (lines
\* 13-32) or a Literal (lines 93-95)
IsAtom(s) ==
    \/ \E kind \in {Types_String, Types_Number, Types_Boolean, Types_Unknown, Types_Bigint,
                    Types_Date} : IsKind(s, kind)
    \/ (~At(s, 0).thrown /\ IsKind(At(s, 0).value, Types_Literal))

\* the dispatch on the shape (lines 13-33) and what each case does before
\* its loop
enter(w, f) ==
    IF IsAtom(f.s) THEN ReturnWith(w, walk(f.d, f.s, f.path, w.root))
    ELSE LET kind == At(f.s, 0)
         IN  IF kind.thrown THEN ReturnWith(w, Thrown(TypeError))
             ELSE IF IsKind(kind.value, Types_Object)
             THEN IF ~Truthy(f.d) \/ TypeOf(f.d) # "object"
                  THEN ReturnWith(w, fail(f.path, <<"an object">>, f.d))
                  ELSE Goto(w, [f EXCEPT !.pc = "members", !.i = 1])
             ELSE IF IsKind(kind.value, Types_Array)
             THEN IF Tag(f.d) # "array" THEN ReturnWith(w, fail(f.path, <<"an array">>, f.d))
                  ELSE Goto(w, [f EXCEPT !.pc = "elements", !.i = 0])
             ELSE IF IsKind(kind.value, Types_Tuple)
             THEN IF Tag(f.d) # "array" THEN ReturnWith(w, fail(f.path, <<"a tuple">>, f.d))
                  ELSE Goto(w, [f EXCEPT !.pc = "item", !.i = 1, !.min = 0, !.max = 0])
             ELSE IF IsKind(kind.value, Types_Union)
             THEN Goto(w, [f EXCEPT !.pc = "options", !.i = 1, !.errors = <<>>])
             ELSE IF IsKind(kind.value, Types_Intersection)
             THEN Goto(w, [f EXCEPT !.pc = "intersect", !.i = 1])
             ELSE IF IsKind(kind.value, Types_Reference)
             THEN LET target == resolve(w.root, Tail(Payload(f.s)), 1)
                  IN  IF target.thrown THEN ReturnWith(w, Thrown(TypeError))
                      ELSE Call(Goto(w, [f EXCEPT !.pc = "reference"]),
                                f.d, target.value, f.path)
             ELSE ReturnWith(w, Matched)

\* a call at the head of one of its loops, the last call it made having
\* returned and been dealt with
advance(w, f) ==
    LET parts == Tail(Payload(f.s))
        length == Len(Payload(f.d))
    IN  CASE f.pc = "members" ->
                \* for(const property of properties) (lines 38-56)
                IF f.i > Len(parts) THEN ReturnWith(w, Matched)
                ELSE LET property == parts[f.i]
                         kind == At(property, 0).value
                         key == Payload(At(property, 1).value)
                     IN  IF IsKind(kind, ObjectMembers_Property)
                         THEN IF ~HasProperty(f.d, key)
                              THEN IF Truthy(At(property, 3).value)
                                   THEN Goto(w, [f EXCEPT !.i = @ + 1])
                                   ELSE ReturnWith(w, fail(SubPath(f.path, key), <<"defined">>,
                                                           Str("undefined")))
                              ELSE Call(w, Get(f.d, key).value, At(property, 2).value,
                                        SubPath(f.path, key))
                         ELSE IF IsKind(kind, ObjectMembers_IndexSignature)
                         THEN Goto(w, [f EXCEPT !.pc = "keys", !.j = 1])
                         ELSE Goto(w, [f EXCEPT !.i = @ + 1])
          [] f.pc = "keys" ->
                \* for(const key in object) (lines 51-54)
                LET keys == ForInKeys(f.d)
                IN  IF f.j > Len(keys) THEN Goto(w, [f EXCEPT !.pc = "members", !.i = @ + 1])
                    ELSE Call(w, Get(f.d, keys[f.j]).value, At(parts[f.i], 1).value,
                              SubPath(f.path, keys[f.j]))
          [] f.pc = "elements" ->
                \* for(let i = 0; i < data.length; ++i) (lines 61-64)
                IF ~(f.i < length) THEN ReturnWith(w, Matched)
                ELSE Call(w, At(f.d, f.i).value, At(f.s, 1).value,
                          SubPath(f.path, NumberToString(f.i)))
          [] f.pc = "item" ->
                \* for(const [shape, type] of items) (lines 71-72, 78), then line 90
                IF f.i > Len(parts)
                THEN ReturnWith(w, IF f.max < length THEN fail(f.path, <<"a tuple">>, f.d)
                                   ELSE Matched)
                ELSE Goto(w, [f EXCEPT !.pc = IF Truthy(At(parts[f.i], 1).value)
                                              THEN "lookahead" ELSE "required"])
          [] f.pc = "lookahead" ->
                \* for(; max < data.length;) (lines 73-74)
                IF ~(f.max < length) THEN Goto(w, [f EXCEPT !.pc = "item", !.i = @ + 1])
                ELSE Call(w, At(f.d, f.max).value, At(parts[f.i], 0).value,
                          SubPath(f.path, NumberToString(f.max)))
          [] f.pc = "required" ->
                \* for(;;) (lines 79-80)
                Call(w, At(f.d, f.min).value, At(parts[f.i], 0).value,
                     SubPath(f.path, NumberToString(f.min)))
          [] f.pc = "options" ->
                \* for(const option of options) (lines 99-100), then line 104
                IF f.i > Len(parts) THEN ReturnWith(w, Mismatch(UnionError(f.path, f.errors)))
                ELSE Call(w, f.d, parts[f.i], f.path)
          [] f.pc = "intersect" ->
                \* for(const member of members) (lines 108-109)
                IF f.i > Len(parts) THEN ReturnWith(w, Matched)
                ELSE Call(w, f.d, parts[f.i], f.path)

\* resumeRequired without ++min: the Required item tests the same element
\* again
resumeRequiredSameElement(w, f, ret) ==
    IF ret.r = "throw" THEN ReturnWith(w, ret)
    ELSE IF ret.r = "ok"
    THEN Goto(w, [f EXCEPT !.pc = "item", !.i = @ + 1, !.min = f.min + 1,
                           !.max = IF f.min + 1 >= @ THEN f.min + 1 ELSE @])
    ELSE IF f.min > f.max THEN ReturnWith(w, ret)
    ELSE Goto(w, f)

\* the test of a Required item has returned (lines 81-86)
resumeRequired(w, f, ret) ==
    IF ret.r = "throw" THEN ReturnWith(w, ret)
    ELSE IF ret.r = "ok"
    THEN Goto(w, [f EXCEPT !.pc = "item", !.i = @ + 1, !.min = f.min + 1,
                           !.max = IF f.min + 1 >= @ THEN f.min + 1 ELSE @])
    ELSE IF f.min + 1 > f.max THEN ReturnWith(w, ret)
    ELSE Goto(w, [f EXCEPT !.min = @ + 1])

\* the call the frame f made has returned (or thrown) ret
resume(w, f, ret) ==
    CASE f.pc = "members" ->
            \* line 48
            IF ret.r # "ok" THEN ReturnWith(w, ret) ELSE Goto(w, [f EXCEPT !.i = @ + 1])
      [] f.pc = "keys" ->
            \* line 53
            IF ret.r # "ok" THEN ReturnWith(w, ret) ELSE Goto(w, [f EXCEPT !.j = @ + 1])
      [] f.pc = "elements" ->
            \* line 63
            IF ret.r # "ok" THEN ReturnWith(w, ret) ELSE Goto(w, [f EXCEPT !.i = @ + 1])
      [] f.pc = "lookahead" ->
            \* lines 75-76
            IF ret.r = "throw" THEN ReturnWith(w, ret)
            ELSE IF ret.r = "error" THEN Goto(w, [f EXCEPT !.pc = "item", !.i = @ + 1])
            ELSE IF StrictEquals(At(Tail(Payload(f.s))[f.i], 1).value,
                                 Num(TupleElementType_Optional))
            THEN Goto(w, [f EXCEPT !.pc = "item", !.i = @ + 1, !.max = @ + 1])
            ELSE Goto(w, [f EXCEPT !.max = @ + 1])
      [] f.pc = "required" -> resumeRequired(w, f, ret)
      [] f.pc = "options" ->
            \* lines 101-102
            IF ret.r = "ok" THEN ReturnWith(w, Matched)
            ELSE IF ret.r = "throw" THEN ReturnWith(w, ret)
            ELSE Goto(w, [f EXCEPT !.i = @ + 1, !.errors = Append(@, ret.error)])
      [] f.pc = "intersect" ->
            \* line 110
            IF ret.r # "ok" THEN ReturnWith(w, ret) ELSE Goto(w, [f EXCEPT !.i = @ + 1])
      [] f.pc = "reference" ->
            \* line 120
            ReturnWith(w, ret)

-----------------------------------------------------------------------------
(* The producer: handleCall of src/transformer.ts (lines 5-110) *)

\* The type of a call's type argument, as the type checker presents it: a
\* table of types, each [kind, of, names, flags] with `of` the positions in
\* the table of the types it is made of. The kinds: "number", "null",
\* "array" (of: the element type), "tuple" (of: the element types, flags:
\* "required" / "optional" / "variable" for each), "union", "intersection",
\* "object" (of: the types of the properties, names: their names, flags:
\* "optional" or "required") and "index" (an object type with a string index
\* type, of: that type).
TypeNode(kind, of, names, flags) == [kind |-> kind, of |-> of, names |-> names, flags |-> flags]

\* what one run of handleCall has accumulated: seenTypes (the Map of line 11,
\* from a type to the path it was first met at), and, kept for the
\* properties, the shape emitted for each object type and the types a
\* Reference was emitted for
NoneSeen == [seenTypes |-> <<>>, emitted |-> <<>>, references |-> {}]

\* map.set(key, value)
MapSet(map, key, value) ==
    [k \in DOMAIN map \cup {key} |-> IF k = key THEN value ELSE map[k]]

\* the element of a Tuple shape (lines 39-43): the shape, then the modifier
\* of an element that is not required
tupleElement(itemShape, flag) ==
    IF flag = "required" THEN RequiredItem(itemShape)
    ELSE IF flag = "variable" THEN VariableItem(itemShape)
    ELSE OptionalItem(itemShape)

\* the member of an Object shape (lines 97-99)
propertyMember(name, valueShape, flag) ==
    IF flag = "optional" THEN OptionalProperty(name, valueShape)
    ELSE Property(name, valueShape)

RECURSIVE walkType(_, _, _, _)
RECURSIVE walkTypesFrom(_, _, _, _, _, _)

\* walkWithPath(type, ...newPath) (lines 12-17): walkType with newPath pushed
\* on the path for the duration
walkWithPath(table, type, path, newPath, seen) ==
    walkType(table, type, path \o newPath, seen)

\* types.map((type, i) => walkWithPath(type, i + 1, ...inner)) from the i-th
\* type on (lines 18, 38-39, 96-97); the Map is the one the earlier types
\* have left
walkTypesFrom(table, types, i, path, inner, seen) ==
    IF i > Len(types) THEN [shapes |-> <<>>, seen |-> seen]
    ELSE LET first == walkWithPath(table, types[i], path, <<i>> \o inner, seen)
             rest == walkTypesFrom(table, types, i + 1, path, inner, first.seen)
         IN  [shapes |-> <<first.shape>> \o rest.shapes, seen |-> rest.seen]

\* walkTypes(types) (line 18)
walkTypes(table, types, path, seen) == walkTypesFrom(table, types, 1, path, <<>>, seen)

\* walkType(type) (lines 19-105), for the types of the table. The union
\* members are those the checker lists: the loop of lines 66-79 regroups
\* only the literals of boolean and enum types, which the table has none of.
walkType(table, type, path, seen) ==
    LET node == table[type]
    IN  IF type \in DOMAIN seen.seenTypes
        THEN [shape |-> ReferenceShape(seen.seenTypes[type]),
              seen |-> [seen EXCEPT !.references = @ \cup {type}]]
        ELSE IF node.kind = "intersection"
        THEN LET members == walkTypes(table, node.of, path, seen)
             IN  [shape |-> IntersectionShape(members.shapes), seen |-> members.seen]
        ELSE IF node.kind = "array"
        THEN LET element == walkWithPath(table, node.of[1], path, <<1>>, seen)
             IN  [shape |-> ArrayShape(element.shape), seen |-> element.seen]
        ELSE IF node.kind = "tuple"
        THEN LET elements == walkTypesFrom(table, node.of, 1, path, <<1>>, seen)
             IN  [shape |-> TupleShape([i \in 1..Len(node.of) |->
                                tupleElement(elements.shapes[i], node.flags[i])]),
                  seen |-> elements.seen]
        ELSE IF node.kind = "number"
        THEN [shape |-> LeafShape(Types_Number), seen |-> seen]
        ELSE IF node.kind = "union"
        THEN LET options == walkTypes(table, node.of, path, seen)
             IN  [shape |-> UnionShape(options.shapes), seen |-> options.seen]
        ELSE IF node.kind = "null"
        THEN [shape |-> LiteralShape(Null), seen |-> seen]
        ELSE LET met == [seen EXCEPT !.seenTypes = MapSet(@, type, path)]
                 made ==
                     IF node.kind = "index"
                     THEN LET value == walkWithPath(table, node.of[1], path, <<1, 1>>, met)
                          IN  [shape |-> ObjectShape(<<IndexSignature(value.shape)>>),
                               seen |-> value.seen]
                     ELSE LET values == walkTypesFrom(table, node.of, 1, path, <<2>>, met)
                          IN  [shape |-> ObjectShape([i \in 1..Len(node.of) |->
                                             propertyMember(node.names[i], values.shapes[i],
                                                            node.flags[i])]),
                               seen |-> values.seen]
             IN  [shape |-> made.shape,
                  seen |-> [made.seen EXCEPT !.emitted = MapSet(@, type, made.shape)]]

\* handleCall(checker, node) (lines 5-110): the Shape of the type argument,
\* walked from an empty path with nothing seen
handleCall(table, type) == walkType(table, type, <<>>, NoneSeen)


-----------------------------------------------------------------------------
(* The inputs the calls are drawn from *)

MaxLen == 3       \* the longest data array
MaxItems == 2     \* the most items of a Tuple shape
MaxOptions == 2   \* the most options of a Union, members of an Intersection
MaxMembers == 2   \* the most members of an Object shape
MaxProps == 2     \* the most own properties of a data object
MaxDepth == 3     \* the most nodes of a linked list
MaxNesting == 2   \* the most types between a type argument and the object type in it

SeqsUpTo(S, n) == UNION {[1..k -> S] : k \in 0..n}

\* data: the primitives, a Date, arrays and plain objects
Scalars ==
    {Undefined, Null, Bool(TRUE), Bool(FALSE), Num(0), Num(1), Str(""), Str("a"),
     BigInt(1), Sym("s"), DateObj(0)}

Elements == {Num(1), Str("a")}
Arrays == {Arr(e) : e \in SeqsUpTo(Elements, MaxLen)}

\* plain objects: some of the keys, in this order, each with a value
KeyOrder == <<"a", "b", "toString">>
PropValues == {Num(1), Str("a")}
KeysInOrder(K) == SelectSeq(KeyOrder, LAMBDA k : k \in K)
ObjectOf(f) ==
    LET keys == KeysInOrder(DOMAIN f)
    IN  Obj([i \in 1..Len(keys) |-> <<keys[i], f[keys[i]]>>])
KeySets == {K \in SUBSET {KeyOrder[i] : i \in 1..Len(KeyOrder)} : Cardinality(K) <= MaxProps}
Objects == UNION {{ObjectOf(f) : f \in [K -> PropValues]} : K \in KeySets}

\* a linked list of `depth` nodes ending in `last`
RECURSIVE Chain(_, _)
Chain(depth, last) ==
    IF depth = 0 THEN last
    ELSE Obj(<<<<"value", Num(1)>>, <<"next", Chain(depth - 1, last)>>>>)

Nested ==
    {Arr(<<Sym("s")>>), Arr(<<Undefined>>), Arr(<<Arr(<<Num(1)>>)>>),
     Obj(<<<<"a", Obj(<<<<"a", Num(1)>>>>)>>>>),
     Chain(1, Null), Chain(2, Null), Chain(2, Num(1))}

DataValues == Scalars \cup Arrays \cup Objects \cup Nested

\* shapes
Leaves ==
    {LeafShape(k) : k \in {Types_String, Types_Number, Types_Boolean, Types_Unknown,
                           Types_Bigint, Types_Date}}
Literals ==
    {LiteralShape(x) : x \in {Null, Undefined, Num(0), Num(1), Str(""), Str("a"),
                              Bool(FALSE), BigInt(1)}}

\* the shapes the composite shapes are built over
ItemShapes == {LeafShape(Types_Number), LeafShape(Types_String), LeafShape(Types_Unknown)}
TupleItems ==
    {RequiredItem(x) : x \in ItemShapes} \cup {OptionalItem(x) : x \in ItemShapes}
        \cup {VariableItem(x) : x \in ItemShapes}
TupleShapes == {TupleShape(items) : items \in SeqsUpTo(TupleItems, MaxItems)}

OptionShapes ==
    {LeafShape(Types_String), LeafShape(Types_Number), LiteralShape(Null),
     ObjectShape(<<Property("a", LeafShape(Types_Number))>>),
     UnionShape(<<LeafShape(Types_Boolean), LiteralShape(Undefined)>>)}
UnionShapes == {UnionShape(o) : o \in SeqsUpTo(OptionShapes, MaxOptions) \ {<<>>}}
IntersectionShapes ==
    {IntersectionShape(m) : m \in SeqsUpTo(OptionShapes, MaxOptions) \ {<<>>}}

MemberShapes == {LeafShape(Types_Number), LeafShape(Types_String)}
ShapeKeys == {"a", "toString"}
Members ==
    {Property(k, x) : k \in ShapeKeys, x \in MemberShapes}
        \cup {OptionalProperty(k, x) : k \in ShapeKeys, x \in MemberShapes}
        \cup {IndexSignature(x) : x \in MemberShapes}
ObjectShapes == {ObjectShape(m) : m \in SeqsUpTo(Members, MaxMembers)}

ArrayShapes == {ArrayShape(x) : x \in ItemShapes}

\* a linked list: the root is the union of a node and null, and `next` refers
\* back to the root (the empty path)
ListShape ==
    UnionShape(<<ObjectShape(<<Property("value", LeafShape(Types_Number)),
                               Property("next", ReferenceShape(<<>>))>>),
                 LiteralShape(Null)>>)

\* the shapes of the calls of Spec: every kind, and the composite ones small
SurfaceShapes ==
    Leaves \cup Literals \cup ArrayShapes \cup {ListShape}
        \cup {TupleShape(items) : items \in SeqsUpTo(TupleItems, 1)}
        \cup {UnionShape(o) : o \in SeqsUpTo(OptionShapes, 2) \ {<<>>}}
        \cup {IntersectionShape(m) : m \in SeqsUpTo(OptionShapes, 1) \ {<<>>}}
        \cup {ObjectShape(m) : m \in SeqsUpTo(Members, 1)}

\* the shape argument when the transformer did not run: `is(data)` leaves it
\* undefined
AbsentShapes == {Undefined, Null}

\* type arguments: an object type Node = {value: number, next: ...} that
\* mentions itself, either directly or inside one more type, and that the
\* type argument holds under up to MaxNesting types. In every table 1 is
\* number, 2 is null and 3 is the type argument.
NumberType == 1
NullType == 2
RootType == 3

\* a type of the given kind around the type c
Around(kind, c) ==
    CASE kind = "array" -> TypeNode("array", <<c>>, <<>>, <<>>)
      [] kind = "tuple" -> TypeNode("tuple", <<NumberType, c>>, <<>>, <<"required", "required">>)
      [] kind = "optional" -> TypeNode("tuple", <<NumberType, c>>, <<>>, <<"required", "optional">>)
      [] kind = "rest" -> TypeNode("tuple", <<NumberType, c>>, <<>>, <<"required", "variable">>)
      [] kind = "pair" -> TypeNode("tuple", <<c, c>>, <<>>, <<"required", "required">>)
      [] kind = "union" -> TypeNode("union", <<c, NullType>>, <<>>, <<>>)
      [] kind = "intersection" -> TypeNode("intersection", <<c, NumberType>>, <<>>, <<>>)
      [] kind = "property" ->
            TypeNode("object", <<NumberType, c>>, <<"a", "child">>, <<"required", "required">>)
      [] kind = "optionalProperty" ->
            TypeNode("object", <<NumberType, c>>, <<"a", "child">>, <<"required", "optional">>)
      [] kind = "index" -> TypeNode("index", <<c>>, <<>>, <<>>)

Nestings ==
    {"array", "tuple", "optional", "rest", "pair", "union", "intersection", "property",
     "optionalProperty", "index"}

\* the table of the type argument outer[1]<outer[2]<...<Node>>>, Node
\* mentioning itself inside a type of kind inner
TypeTable(outer, inner) ==
    LET n == Len(outer)
        nodeType == RootType + n
    IN  <<TypeNode("number", <<>>, <<>>, <<>>), TypeNode("null", <<>>, <<>>, <<>>)>>
            \o [i \in 1..n |-> Around(outer[i], RootType + i)]
            \o <<TypeNode("object",
                          <<NumberType, IF inner = "direct" THEN nodeType ELSE nodeType + 1>>,
                          <<"value", "next">>, <<"required", "required">>)>>
            \o (IF inner = "direct" THEN <<>> ELSE <<Around(inner, nodeType)>>)

TypeTables ==
    {TypeTable(outer, inner) :
        outer \in SeqsUpTo(Nestings, MaxNesting), inner \in Nestings \cup {"direct"}}

\* walk is not in its tuple case
NoMatcher ==
    [pc |-> "idle", d |-> Arr(<<>>), items |-> <<>>, i |-> 0, min |-> 0, max |-> 0,
     result |-> Matched, failed |-> <<>>]

\* before any run of the transformer
NoTransform == [table |-> <<>>, type |-> 0, seen |-> NoneSeen]

-----------------------------------------------------------------------------
(* The calls *)

Init ==
    /\ fn = "none"
    /\ data = Undefined
    /\ shape = Undefined
    /\ outcome = NoOutcome
    /\ bound = NoClosure
    /\ transform = NoTransform
    /\ matcher = NoMatcher
    /\ walker = NoWalker

\* the caller has made no call yet
Idle == fn = "none"
\* the caller holds a function createIs or createCast returned
Holding == fn \in {"createIs", "createCast"}

\* is(d, s)
Is(d, s) ==
    /\ Idle
    /\ fn' = "is"
    /\ data' = d
    /\ shape' = s
    /\ outcome' = is(d, s)
    /\ UNCHANGED <<bound, transform, matcher, walker>>

\* cast(d, s)
Cast(d, s) ==
    /\ Idle
    /\ fn' = "cast"
    /\ data' = d
    /\ shape' = s
    /\ outcome' = cast(d, s)
    /\ UNCHANGED <<bound, transform, matcher, walker>>

\* createIs(s)
CreateIs(s) ==
    /\ Idle
    /\ fn' = "createIs"
    /\ shape' = s
    /\ bound' = createIs(s)
    /\ outcome' = Return(Fn("bound"))
    /\ UNCHANGED <<data, transform, matcher, walker>>

\* createCast(s)
CreateCast(s) ==
    /\ Idle
    /\ fn' = "createCast"
    /\ shape' = s
    /\ bound' = createCast(s)
    /\ outcome' = Return(Fn("bound"))
    /\ UNCHANGED <<data, transform, matcher, walker>>

\* a call bound(d) of the function createIs or createCast returned
CallBound(d) ==
    /\ Holding
    /\ fn' = IF bound.fn = "is" THEN "boundIs" ELSE "boundCast"
    /\ data' = d
    /\ outcome' = callBound(bound, d)
    /\ UNCHANGED <<shape, bound, transform, matcher, walker>>

Next ==
    \/ Idle /\ \E d \in DataValues, s \in SurfaceShapes \cup AbsentShapes : Is(d, s)
    \/ Idle /\ \E d \in DataValues, s \in SurfaceShapes \cup AbsentShapes : Cast(d, s)
    \/ Idle /\ \E s \in SurfaceShapes \cup AbsentShapes : CreateIs(s)
    \/ Idle /\ \E s \in SurfaceShapes \cup AbsentShapes : CreateCast(s)
    \/ Holding /\ \E d \in DataValues : CallBound(d)

Spec == Init /\ [][Next]_vars

\* calls whose shape is a Tuple, on arrays and on data that is no array
TupleData == Arrays \cup {Undefined, Str("a"), Obj(<<>>)}

NextTuple ==
    \/ Idle /\ \E d \in TupleData, s \in TupleShapes : Is(d, s)
    \/ Idle /\ \E d \in TupleData, s \in TupleShapes : Cast(d, s)

SpecTuple == Init /\ [][NextTuple]_vars

\* calls whose shape is a Union
NextUnion ==
    \/ Idle /\ \E d \in DataValues, s \in UnionShapes : Is(d, s)
    \/ Idle /\ \E d \in DataValues, s \in UnionShapes : Cast(d, s)

SpecUnion == Init /\ [][NextUnion]_vars

\* calls whose shape is an Object
ObjectData == Objects \cup {Null, Num(1), Str("a"), DateObj(0), Arr(<<>>), Arr(<<Num(1)>>),
                            Arr(<<Str("a"), Num(1)>>)}

NextObject ==
    \/ Idle /\ \E d \in ObjectData, s \in ObjectShapes : Is(d, s)
    \/ Idle /\ \E d \in ObjectData, s \in ObjectShapes : Cast(d, s)

SpecObject == Init /\ [][NextObject]_vars

\* linked lists of at most n nodes: what a list may end in, and nodes whose
\* value is or is not a number
ListEnds ==
    {Null, Undefined, Num(1), Str("a"), Sym("s"), Obj(<<<<"value", Num(1)>>>>)}
ListNode(value, next) == Obj(<<<<"value", value>>, <<"next", next>>>>)
RECURSIVE Lists(_)
Lists(n) ==
    IF n = 0 THEN ListEnds
    ELSE ListEnds \cup {ListNode(v, l) : v \in {Num(1), Str("a")}, l \in Lists(n - 1)}
ListData == Lists(MaxDepth)

\* calls whose shape is the linked list
NextList ==
    \/ Idle /\ \E d \in ListData : Is(d, ListShape)
    \/ Idle /\ \E d \in ListData : Cast(d, ListShape)

SpecList == Init /\ [][NextList]_vars

\* The tuple case of walk (src/index.ts lines 67-92), one step at a time, for
\* a Tuple shape at the root. matcher.i is the item the loop of line 71 is
\* at; pc is "item" between two items, "lookahead" at the head of the loop of
\* line 73, "required" at the head of the loop of line 79, "done" once walk
\* has returned or thrown. matcher.failed is no variable of the code: it
\* keeps, in order, the errors of the element tests that have failed.
TuplePath == <<"root">>
TupleRoot == TupleShape(matcher.items)
ItemShape == At(matcher.items[matcher.i], 0).value
ItemType == At(matcher.items[matcher.i], 1).value

\* lines 68-70: data is an array; let min = 0, max = 0
TupleBegin(d, items) ==
    /\ matcher.pc = "idle"
    /\ Tag(d) = "array"
    /\ matcher' = [pc |-> "item", d |-> d, items |-> items, i |-> 1, min |-> 0, max |-> 0,
                   result |-> Matched, failed |-> <<>>]
    /\ UNCHANGED <<fn, data, shape, outcome, bound, transform, walker>>

\* lines 71-72, 78: the next item; if(type) chooses the loop
ItemBegin ==
    /\ matcher.pc = "item"
    /\ matcher.i <= Len(matcher.items)
    /\ matcher' = [matcher EXCEPT !.pc = IF Truthy(ItemType) THEN "lookahead" ELSE "required"]
    /\ UNCHANGED <<fn, data, shape, outcome, bound, transform, walker>>

\* the step of lines 80-86 with max set to min whenever the element matches
RequiredStepAlwaysSetsMax ==
    /\ matcher.pc = "required"
    /\ LET error == walk(At(matcher.d, matcher.min).value, ItemShape,
                         SubPath(TuplePath, NumberToString(matcher.min)), TupleRoot)
           min == matcher.min + 1
       IN  matcher' =
               IF error.r = "throw"
               THEN [matcher EXCEPT !.pc = "done", !.result = error]
               ELSE IF error.r = "ok"
               THEN [matcher EXCEPT !.pc = "item", !.i = @ + 1, !.min = min, !.max = min]
               ELSE IF min > matcher.max
               THEN [matcher EXCEPT !.pc = "done", !.min = min, !.result = error,
                                    !.failed = Append(@, error.error)]
               ELSE [matcher EXCEPT !.min = min, !.failed = Append(@, error.error)]
    /\ UNCHANGED <<fn, data, shape, outcome, bound, transform, walker>>

\* one turn of for(;;) (lines 79-87): test data[min], ++min, then leave the
\* loop on a match, return on a failure past max, or go round again
RequiredStep ==
    /\ matcher.pc = "required"
    /\ LET error == walk(At(matcher.d, matcher.min).value, ItemShape,
                         SubPath(TuplePath, NumberToString(matcher.min)), TupleRoot)
           min == matcher.min + 1
       IN  matcher' =
               IF error.r = "throw"
               THEN [matcher EXCEPT !.pc = "done", !.result = error]
               ELSE IF error.r = "ok"
               THEN [matcher EXCEPT !.pc = "item", !.i = @ + 1, !.min = min,
                                    !.max = IF min >= @ THEN min ELSE @]
               ELSE IF min > matcher.max
               THEN [matcher EXCEPT !.pc = "done", !.min = min, !.result = error,
                                    !.failed = Append(@, error.error)]
               ELSE [matcher EXCEPT !.min = min, !.failed = Append(@, error.error)]
    /\ UNCHANGED <<fn, data, shape, outcome, bound, transform, walker>>

\* one turn of for(; max < data.length;) (lines 73-77): the loop ends when
\* max has reached the length, on a failure, and after one turn for an
\* Optional item
LookaheadStep ==
    /\ matcher.pc = "lookahead"
    /\ IF ~(matcher.max < Len(Payload(matcher.d)))
       THEN matcher' = [matcher EXCEPT !.pc = "item", !.i = @ + 1]
       ELSE LET error == walk(At(matcher.d, matcher.max).value, ItemShape,
                              SubPath(TuplePath, NumberToString(matcher.max)), TupleRoot)
            IN  matcher' =
                    IF error.r = "throw"
                    THEN [matcher EXCEPT !.pc = "done", !.result = error]
                    ELSE IF error.r = "error"
                    THEN [matcher EXCEPT !.pc = "item", !.i = @ + 1,
                                         !.failed = Append(@, error.error)]
                    ELSE IF StrictEquals(ItemType, Num(TupleElementType_Optional))
                    THEN [matcher EXCEPT !.pc = "item", !.i = @ + 1, !.max = @ + 1]
                    ELSE [matcher EXCEPT !.max = @ + 1]
    /\ UNCHANGED <<fn, data, shape, outcome, bound, transform, walker>>

\* lines 90-91, after the last item
TupleEnd ==
    /\ matcher.pc = "item"
    /\ matcher.i > Len(matcher.items)
    /\ matcher' = [matcher EXCEPT
                       !.pc = "done",
                       !.result = IF matcher.max < Len(Payload(matcher.d))
                                  THEN fail(TuplePath, <<"a tuple">>, matcher.d)
                                  ELSE Matched]
    /\ UNCHANGED <<fn, data, shape, outcome, bound, transform, walker>>

NextMatcher ==
    \/ matcher.pc = "idle" /\ \E d \in Arrays, s \in TupleShapes : TupleBegin(d, ItemsOfShape(s))
    \/ ItemBegin
    \/ RequiredStep
    \/ LookaheadStep
    \/ TupleEnd

SpecMatcher == Init /\ [][NextMatcher]_vars

\* casts whose shape is an Array, an Object or an Intersection, and the tuple
\* case of walk step by step
ErrorShapes == ArrayShapes \cup ObjectShapes \cup IntersectionShapes
ErrorData == Arrays \cup Objects \cup Scalars

NextErrors ==
    \/ Idle /\ matcher.pc = "idle" /\ \E d \in ErrorData, s \in ErrorShapes : Cast(d, s)
    \/ Idle /\ \E d \in Arrays, s \in TupleShapes : TupleBegin(d, ItemsOfShape(s))
    \/ ItemBegin
    \/ RequiredStep
    \/ LookaheadStep
    \/ TupleEnd

SpecErrors == Init /\ [][NextErrors]_vars

\* A run of validate, one step of walk at a time.
TopFrame == walker.stack[Len(walker.stack)]

\* line 125: walk(data, root, 'root')
WalkBegin(d, s) ==
    /\ walker.status = "idle"
    /\ walker' = [status |-> "running", d |-> d, root |-> s, stack |-> <<Frame(d, s, <<"root">>)>>,
                  ret |-> NoResult]
    /\ UNCHANGED <<fn, data, shape, outcome, bound, transform, matcher>>

\* the call just made dispatches on its shape
WalkEnter ==
    /\ walker.status = "running"
    /\ walker.ret.r = "none"
    /\ TopFrame.pc = "enter"
    /\ walker' = enter(walker, TopFrame)
    /\ UNCHANGED <<fn, data, shape, outcome, bound, transform, matcher>>

\* the innermost call goes on from the head of its loop
WalkAdvance ==
    /\ walker.status = "running"
    /\ walker.ret.r = "none"
    /\ TopFrame.pc # "enter"
    /\ walker' = advance(walker, TopFrame)
    /\ UNCHANGED <<fn, data, shape, outcome, bound, transform, matcher>>

\* the innermost call takes what the call it made has returned
WalkResume ==
    /\ walker.status = "running"
    /\ walker.ret.r # "none"
    /\ walker' = resume(walker, TopFrame, walker.ret)
    /\ UNCHANGED <<fn, data, shape, outcome, bound, transform, matcher>>

\* shapes that refer to themselves, every cycle through an Object member, an
\* Array element or a Tuple item: the linked list; a tree of arrays; a list
\* made of pairs [number, rest?]; a tuple whose Required item is the root
\* again, or nothing; a record of numbers and of records of the same kind
RecursiveShapes ==
    {ListShape,
     ArrayShape(ReferenceShape(<<>>)),
     TupleShape(<<RequiredItem(LeafShape(Types_Number)), OptionalItem(ReferenceShape(<<>>))>>),
     UnionShape(<<TupleShape(<<RequiredItem(ReferenceShape(<<>>))>>),
                  LiteralShape(Undefined)>>),
     ObjectShape(<<IndexSignature(UnionShape(<<LeafShape(Types_Number),
                                               ReferenceShape(<<>>)>>))>>)}

\* tuples in which a Required item comes after an Optional or Variable one
ReclaimShapes ==
    {TupleShape(<<first, RequiredItem(x)>>) :
        first \in {OptionalItem(LeafShape(Types_String)), VariableItem(LeafShape(Types_String)),
                   VariableItem(LeafShape(Types_Unknown))},
        x \in {LeafShape(Types_Number), LeafShape(Types_Unknown)}}

WalkShapes == SurfaceShapes \cup RecursiveShapes \cup ReclaimShapes

\* arrays in arrays
NestedArrays ==
    {Arr(<<Arr(<<>>)>>), Arr(<<Arr(<<>>), Arr(<<Arr(<<>>)>>)>>),
     Arr(<<Num(1), Arr(<<Num(1)>>)>>), Arr(<<Num(1), Arr(<<Num(1), Arr(<<Num(1)>>)>>)>>),
     Arr(<<Num(1), Arr(<<Str("a")>>)>>), Arr(<<Arr(<<Arr(<<>>)>>)>>),
     Obj(<<<<"a", Num(1)>>, <<"b", Obj(<<<<"a", Obj(<<>>)>>>>)>>>>)}

WalkData == DataValues \cup ListData \cup NestedArrays

NextWalker ==
    \/ walker.status = "idle" /\ \E d \in WalkData, s \in WalkShapes : WalkBegin(d, s)
    \/ WalkEnter
    \/ WalkAdvance
    \/ WalkResume

\* a call that has been made runs: the language takes the steps of a call
\* one after the other until it returns or throws
WalkerRuns == WF_vars(WalkEnter \/ WalkAdvance \/ WalkResume)

SpecWalker == Init /\ [][NextWalker]_vars /\ WalkerRuns

\* the transformer meets a call is<T>(...) and appends the Shape of T to its
\* arguments (src/transformer.ts lines 120-125)
Transform(table) ==
    /\ Idle
    /\ fn' = "transform"
    /\ transform' = [table |-> table, type |-> RootType,
                     seen |-> handleCall(table, RootType).seen]
    /\ shape' = handleCall(table, RootType).shape
    /\ UNCHANGED <<data, outcome, bound, matcher, walker>>

\* the call of is the transformer rewrote is made
IsTransformed(d) ==
    /\ fn = "transform"
    /\ fn' = "is"
    /\ data' = d
    /\ outcome' = is(d, shape)
    /\ UNCHANGED <<shape, bound, transform, matcher, walker>>

\* the data of those calls: a node, alone and in an array of one and of two
TransformedData ==
    {ListNode(Num(1), Null), Arr(<<ListNode(Num(1), Null)>>),
     Arr(<<Num(1), ListNode(Num(1), Null)>>)}

NextProducer ==
    \/ Idle /\ \E table \in TypeTables : Transform(table)
    \/ fn = "transform" /\ \E d \in TransformedData : IsTransformed(d)

SpecProducer == Init /\ [][NextProducer]_vars

\* shapes with a Reference whose path leads to no Shape node of the root:
\* past the end of a node, or onto a number, string or boolean that is part
\* of a node's layout
DanglingShapes ==
    {\* root[5] is past the end of the Object node
     ObjectShape(<<Property("a", ReferenceShape(<<5>>))>>),
     \* root[5][0]: a read of a property of undefined
     ObjectShape(<<Property("a", ReferenceShape(<<5, 0>>))>>),
     \* root[0] is the kind tag Types.Object
     ObjectShape(<<Property("a", ReferenceShape(<<0>>))>>),
     \* root[0] is the kind tag Types.Array
     ArrayShape(ReferenceShape(<<0>>)),
     \* root[1][0] is the member tag ObjectMembers.Property
     ObjectShape(<<Property("a", ReferenceShape(<<1, 0>>))>>),
     \* root[1][1] is the property key "a"
     ObjectShape(<<Property("a", ReferenceShape(<<1, 1>>))>>),
     \* root[1][3] is the optional flag true
     ObjectShape(<<OptionalProperty("a", ReferenceShape(<<1, 3>>))>>),
     \* root[1][1] is the tuple modifier TupleElementType.Optional
     TupleShape(<<OptionalItem(ReferenceShape(<<1, 1>>))>>),
     \* root[2][1] is the tuple modifier TupleElementType.Variable
     TupleShape(<<RequiredItem(LeafShape(Types_Number)),
                  VariableItem(ReferenceShape(<<2, 1>>))>>)}

\* data with which the validation arrives at the Reference: a record with
\* the key a for the Object shapes, an array of two elements or more that
\* begins with a number for the Array and Tuple shapes
DanglingData(s) ==
    IF IsKind(At(s, 0).value, Types_Object)
    THEN {o \in Objects : "a" \in OwnKeys(o)}
    ELSE {a \in Arrays : Len(Payload(a)) >= 2 /\ Payload(a)[1] = Num(1)}

\* calls whose shape holds such a Reference
NextDangling ==
    \/ Idle /\ \E s \in DanglingShapes : \E d \in DanglingData(s) : Is(d, s)
    \/ Idle /\ \E s \in DanglingShapes : \E d \in DanglingData(s) : Cast(d, s)

SpecDangling == Init /\ [][NextDangling]_vars


-----------------------------------------------------------------------------
(* The public surface: is, cast and the missing Shape *)

IsCalled == fn \in {"is", "boundIs"}
CastCalled == fn \in {"cast", "boundCast"}
ShapeSupplied == ~LooseEqualsNull(shape)

\* C1: for every data value and every well-formed Shape, is(data, shape)
\* returns a boolean and never throws; it returns true exactly when
\* cast(data, shape) returns, and false exactly when cast(data, shape) throws
\* a validation error.
C1_IsReturnsBoolean ==
    (IsCalled /\ ShapeSupplied) =>
        /\ outcome.kind = "return"
        /\ Tag(outcome.value) = "boolean"
        /\ Payload(outcome.value) <=> (cast(data, shape).kind = "return")
        /\ ~Payload(outcome.value) <=> (/\ cast(data, shape).kind = "throw"
                                 /\ cast(data, shape).error.kind = "ParserError")

\* C2: for every data value and well-formed Shape, cast(data, shape) either
\* returns the data it was given (a match), or throws the validation error the
\* structural match produced (a mismatch); nothing else happens.
C2_CastReturnsDataOrThrowsValidationError ==
    (CastCalled /\ ShapeSupplied) =>
        \/ /\ outcome = Return(data)
           /\ walk(data, shape, <<"root">>, shape).r = "ok"
        \/ /\ outcome.kind = "throw"
           /\ outcome.error.kind = "ParserError"
           /\ walk(data, shape, <<"root">>, shape) = Mismatch(outcome.error)

\* C3: the configuration error is thrown exactly when the Shape argument is
\* null or undefined: then is, cast and the functions createIs and createCast
\* returned throw it whatever the data, and it is no validation error; a Shape
\* that was supplied, the leaf String (the number 0) included, never raises it.
C3_ConfigurationErrorIffShapeAbsent ==
    (IsCalled \/ CastCalled) =>
        /\ (shape \in AbsentShapes) <=> (outcome = Throw(TransformerError))
        /\ (shape \in AbsentShapes) => outcome.error.kind # "ParserError"
        /\ (shape = LeafShape(Types_String)) => outcome.error.kind # "Error"

\* a function createCast bound to no Shape was called and threw the
\* configuration error
C3_Witness ==
    /\ fn = "boundCast"
    /\ shape = Undefined
    /\ data = Str("a")
    /\ outcome = Throw(TransformerError)


-----------------------------------------------------------------------------
(* Tuples *)

\* the call accepted the data: is returned true, cast returned
Accepted ==
    \/ IsCalled /\ outcome = Return(Bool(TRUE))
    \/ CastCalled /\ outcome.kind = "return"

IsTupleCall == (IsCalled \/ CastCalled) /\ shape \in TupleShapes

\* the items of a Tuple shape, the shape of an item and its modifier
ItemsOf(s) == Tail(Payload(s))
ItemShapeOf(item) == Payload(item)[1]
IsRequiredItem(item) == Len(Payload(item)) = 1
IsOptionalItem(item) == Len(Payload(item)) = 2 /\ Payload(item)[2] = Num(TupleElementType_Optional)
IsVariableItem(item) == Len(Payload(item)) = 2 /\ Payload(item)[2] = Num(TupleElementType_Variable)

\* the element x matches the item shape s
ElementMatches(x, s) == walk(x, s, <<"root">>, s).r = "ok"

\* The reference matcher: the items from the i-th on can be assigned, in
\* order, exactly the elements after the first pos, a Required item taking
\* one element, an Optional item at most one, a Variable item a run of any
\* length, each element matching the shape of its item.
RECURSIVE Assignable(_, _, _, _)
Assignable(items, elems, i, pos) ==
    IF i > Len(items) THEN pos = Len(elems)
    ELSE LET s == ItemShapeOf(items[i])
         IN  IF IsRequiredItem(items[i])
             THEN /\ pos < Len(elems)
                  /\ ElementMatches(elems[pos + 1], s)
                  /\ Assignable(items, elems, i + 1, pos + 1)
             ELSE IF IsOptionalItem(items[i])
             THEN \/ Assignable(items, elems, i + 1, pos)
                  \/ /\ pos < Len(elems)
                     /\ ElementMatches(elems[pos + 1], s)
                     /\ Assignable(items, elems, i + 1, pos + 1)
             ELSE \E k \in 0..(Len(elems) - pos) :
                     /\ \A j \in 1..k : ElementMatches(elems[pos + j], s)
                     /\ Assignable(items, elems, i + 1, pos + k)

\* C4: the tuple matcher is sound against the reference matcher: whenever it
\* accepts a data sequence, an in-order assignment of every element to the
\* items exists.
C4_TupleMatcherSound ==
    (IsTupleCall /\ Tag(data) = "array" /\ Accepted) =>
        Assignable(ItemsOf(shape), Payload(data), 1, 0)

\* C5: the tuple matcher is complete against the reference matcher: whenever
\* an in-order assignment exists, it accepts (a Required item reclaims what
\* an earlier Optional or Variable item took).
C5_TupleMatcherComplete ==
    (IsTupleCall /\ Tag(data) = "array" /\ Assignable(ItemsOf(shape), Payload(data), 1, 0)) =>
        Accepted


\* the shape s rejects the absent value a read past the end of the data yields
RejectsUndefined(s) == ~ElementMatches(Undefined, s)

AllRequired(items) ==
    \A i \in 1..Len(items) : IsRequiredItem(items[i]) /\ RejectsUndefined(ItemShapeOf(items[i]))

\* the elements match the items position by position
MatchPositionally(items, elems, n) ==
    \A i \in 1..n : ElementMatches(elems[i], ItemShapeOf(items[i]))

\* C6: for a Tuple whose n items are all Required, with shapes that reject
\* undefined, the data is accepted if and only if it is an array of exactly n
\* elements, the i-th matching the i-th item; shorter and longer arrays are
\* rejected.
C6_AllRequiredTuple ==
    (IsTupleCall /\ AllRequired(ItemsOf(shape))) =>
        (Accepted <=>
            /\ Tag(data) = "array"
            /\ Len(Payload(data)) = Len(ItemsOf(shape))
            /\ MatchPositionally(ItemsOf(shape), Payload(data), Len(ItemsOf(shape))))

\* [number, string] against [1, "a", 1]: the trailing element is refused
C6_Witness ==
    /\ fn = "is"
    /\ shape = TupleShape(<<RequiredItem(LeafShape(Types_Number)),
                            RequiredItem(LeafShape(Types_String))>>)
    /\ data = Arr(<<Num(1), Str("a"), Num(1)>>)
    /\ outcome = Return(Bool(FALSE))

\* k Required items, with shapes that reject undefined, then one Variable item
RequiredThenVariable(items) ==
    /\ Len(items) >= 1
    /\ IsVariableItem(items[Len(items)])
    /\ AllRequired(SubSeq(items, 1, Len(items) - 1))

\* C7: for a Tuple of k Required items followed by one final Variable item,
\* the data is accepted if and only if it is an array of at least k elements,
\* the first k matching the Required items and every other one matching the
\* Variable item; an empty run is accepted, a run that ends before the data
\* does is rejected.
C7_RequiredThenVariableTuple ==
    (IsTupleCall /\ RequiredThenVariable(ItemsOf(shape))) =>
        LET items == ItemsOf(shape)
            k == Len(items) - 1
        IN  Accepted <=>
                /\ Tag(data) = "array"
                /\ Len(Payload(data)) >= k
                /\ MatchPositionally(items, Payload(data), k)
                /\ \A j \in (k + 1)..Len(Payload(data)) :
                       ElementMatches(Payload(data)[j], ItemShapeOf(items[k + 1]))

\* [number, ...string[]] against [1, "a", "a"]: a run of two is accepted
C7_Witness ==
    /\ fn = "is"
    /\ shape = TupleShape(<<RequiredItem(LeafShape(Types_Number)),
                            VariableItem(LeafShape(Types_String))>>)
    /\ data = Arr(<<Num(1), Str("a"), Str("a")>>)
    /\ outcome = Return(Bool(TRUE))



-----------------------------------------------------------------------------
(* Unions *)

IsUnionCall == (IsCalled \/ CastCalled) /\ shape \in UnionShapes

OptionsOf(s) == Tail(Payload(s))

\* the result of matching the data of the call against the i-th option alone
OptionResult(i) == walk(data, OptionsOf(shape)[i], <<"root">>, shape)

\* C8: for a Union the match succeeds if and only if at least one alternative
\* matches the data; when every alternative fails, the result is one
\* aggregate error at the union's own path listing the failure of every
\* alternative in declared order (is returns false, cast throws that error).
C8_UnionMatchesIffSomeOption ==
    IsUnionCall =>
        LET n == Len(OptionsOf(shape))
            someMatches == \E i \in 1..n : OptionResult(i).r = "ok"
            aggregate == UnionError(<<"root">>, [i \in 1..n |-> OptionResult(i).error])
        IN  /\ Accepted <=> someMatches
            /\ (~someMatches /\ IsCalled) => outcome = Return(Bool(FALSE))
            /\ (~someMatches /\ CastCalled) => outcome = Throw(aggregate)


-----------------------------------------------------------------------------
(* Objects *)

IsObjectCall == (IsCalled \/ CastCalled) /\ shape \in ObjectShapes

IsRecord(x) == Tag(x) = "object"

MembersOf(s) == Tail(Payload(s))
IsPropertyMember(m) == Payload(m)[1] = Num(ObjectMembers_Property)
IsIndexMember(m) == Payload(m)[1] = Num(ObjectMembers_IndexSignature)
KeyOf(m) == Payload(Payload(m)[2])
ValueShapeOf(m) == Payload(m)[3]
IsOptionalMember(m) == Len(Payload(m)) = 4 /\ Payload(m)[4] = Bool(TRUE)
IndexShapeOf(m) == Payload(m)[2]

HasIndexMember(s) == \E i \in 1..Len(MembersOf(s)) : IsIndexMember(MembersOf(s)[i])

\* the record has the key among its own properties
OwnPresent(object, m) == KeyOf(m) \in OwnKeys(object)
\* the record has the key among its own properties or inherits it
Present(object, m) == OwnPresent(object, m) \/ KeyOf(m) \in ObjectPrototypeKeys

\* the value read under the key: the own one, else the inherited method
ValueAt(object, m) ==
    IF OwnPresent(object, m) THEN OwnValue(object, KeyOf(m)) ELSE Fn(KeyOf(m))

\* the error of a required Property whose key is absent
ExpectedDefined(m) == ParserError(<<"root", KeyOf(m)>>, <<"defined">>, <<"undefined">>)

\* C9 as stated, absent meaning that the record has no such property of its
\* own: a Property member whose key is absent fails with 'expected defined'
\* at path.key unless it is optional; one whose key is present is validated
\* against its value shape, optional or not; other keys are ignored when the
\* shape has no IndexSignature member.
C9_PropertyAbsentMeansNotOwn ==
    (IsObjectCall /\ IsRecord(data) /\ ~HasIndexMember(shape)) =>
        LET members == MembersOf(shape)
            fails(i) ==
                IF OwnPresent(data, members[i])
                THEN ~ElementMatches(ValueAt(data, members[i]), ValueShapeOf(members[i]))
                ELSE ~IsOptionalMember(members[i])
            failing == {i \in 1..Len(members) : fails(i)}
        IN  /\ Accepted <=> failing = {}
            /\ (CastCalled /\ failing # {}) =>
                   LET first == CHOOSE i \in failing : \A j \in failing : i <= j
                   IN  ~OwnPresent(data, members[first]) =>
                           outcome = Throw(ExpectedDefined(members[first]))

\* C9, amended: absent means that the key is found neither among the record's
\* own properties nor among those it inherits; an inherited property is
\* present, and its value is validated like any other.
C9_PropertyAbsentMeansNotInObject ==
    (IsObjectCall /\ IsRecord(data) /\ ~HasIndexMember(shape)) =>
        LET members == MembersOf(shape)
            fails(i) ==
                IF Present(data, members[i])
                THEN ~ElementMatches(ValueAt(data, members[i]), ValueShapeOf(members[i]))
                ELSE ~IsOptionalMember(members[i])
            failing == {i \in 1..Len(members) : fails(i)}
        IN  /\ Accepted <=> failing = {}
            /\ (CastCalled /\ failing # {}) =>
                   LET first == CHOOSE i \in failing : \A j \in failing : i <= j
                   IN  ~Present(data, members[first]) =>
                           outcome = Throw(ExpectedDefined(members[first]))

\* {toString?: number} against {}: the inherited method is validated, and is
\* no number
C9_Witness ==
    /\ fn = "is"
    /\ shape = ObjectShape(<<OptionalProperty("toString", LeafShape(Types_Number))>>)
    /\ data = Obj(<<>>)
    /\ outcome = Return(Bool(FALSE))

\* C10: for an Object shape with an IndexSignature member, the data is
\* accepted only if the value of every key present on the record matches the
\* index shape, the keys a Property member also checks included: a key whose
\* value satisfies its Property shape but not the index shape is rejected.
C10_IndexSignatureChecksEveryKey ==
    (IsObjectCall /\ IsRecord(data) /\ Accepted) =>
        \A i \in 1..Len(MembersOf(shape)) :
            IsIndexMember(MembersOf(shape)[i]) =>
                \A key \in OwnKeys(data) :
                    ElementMatches(OwnValue(data, key), IndexShapeOf(MembersOf(shape)[i]))

\* {a: number, [key: string]: string} against {a: 1}: a satisfies its
\* Property and fails the index shape
C10_Witness ==
    /\ fn = "is"
    /\ shape = ObjectShape(<<Property("a", LeafShape(Types_Number)),
                             IndexSignature(LeafShape(Types_String))>>)
    /\ data = Obj(<<<<"a", Num(1)>>>>)
    /\ outcome = Return(Bool(FALSE))


-----------------------------------------------------------------------------
(* References: the linked list *)

IsListCall == (IsCalled \/ CastCalled) /\ shape = ListShape

\* a node of the list: an object with a numeric value and a next
IsListNode(x) ==
    /\ Tag(x) = "object"
    /\ "value" \in OwnKeys(x) /\ Tag(OwnValue(x, "value")) = "number"
    /\ "next" \in OwnKeys(x)

\* every node carries a numeric value and the chain ends in null
RECURSIVE IsList(_)
IsList(x) == x = Null \/ (IsListNode(x) /\ IsList(OwnValue(x, "next")))

\* the data path of the first thing on the chain that is neither null nor a
\* node
RECURSIVE OffendingPath(_, _)
OffendingPath(x, path) ==
    IF IsListNode(x) THEN OffendingPath(OwnValue(x, "next"), Append(path, "next"))
    ELSE path

\* the failure at the bottom of an aggregate error, following the first
\* alternative (the node) at every level
RECURSIVE Innermost(_)
Innermost(error) ==
    IF error.branches = <<>> THEN error ELSE Innermost(error.branches[1])

\* C11: for the root shape Union(Object{value: Number, next: Reference(root)},
\* Literal(null)) a chain of any depth is accepted if and only if every node
\* carries a numeric value and the chain ends in null; and the Reference is
\* validated with the caller's data path: the validation error of a rejected
\* chain names the data location of the offending node (the node itself, or
\* the member of it that failed).
C11_ListAcceptedIffWellFormed ==
    IsListCall =>
        /\ Accepted <=> IsList(data)
        /\ (CastCalled /\ outcome.kind = "throw" /\ outcome.error.kind = "ParserError") =>
               LET at == OffendingPath(data, <<"root">>)
                   named == Innermost(outcome.error).path
               IN  /\ outcome.error.path = <<"root">>
                   /\ Len(named) \in {Len(at), Len(at) + 1}
                   /\ SubSeq(named, 1, Len(at)) = at

\* a chain of two nodes that ends in the number 1: the error names
\* root.next.next
C11_Witness ==
    /\ fn = "cast"
    /\ shape = ListShape
    /\ data = ListNode(Num(1), ListNode(Num(1), Num(1)))
    /\ outcome.kind = "throw"
    /\ Innermost(outcome.error) =
           ParserError(<<"root", "next", "next">>, <<"an object">>, <<"1">>)


-----------------------------------------------------------------------------
(* References that lead to no Shape node *)

IsDanglingCall == (IsCalled \/ CastCalled) /\ shape \in DanglingShapes

\* the call ended in an error that is no validation error
EndedFatally == outcome.kind = "throw" /\ outcome.error.kind # "ParserError"

\* C12: a Reference whose path does not lead to a Shape node of the root
\* always ends the validation in a fatal error, whatever the data: never in
\* a successful match, never in an ordinary validation mismatch.
C12_DanglingReferenceIsFatal == IsDanglingCall => EndedFatally


-----------------------------------------------------------------------------
(* The References the producer emits *)

Transformed == transform # NoTransform

\* where the resolver of the runtime arrives from the root shape along the
\* path the producer recorded for the type
ResolvedFor(type) ==
    LET rootPath == transform.seen.seenTypes[type]
    IN  resolve(shape, [i \in 1..Len(rootPath) |-> Num(rootPath[i])], 1)

\* C13: every Reference the producer emits resolves to the node it denotes:
\* following the emitted path from the root, by the resolver's successive
\* indexing, arrives exactly at the Object shape emitted for that type,
\* whatever array elements, tuple items, union or intersection members,
\* object properties and index signatures the type was reached through.
C13_ReferencesResolve ==
    Transformed =>
        \A type \in transform.seen.references :
            /\ ~ResolvedFor(type).thrown
            /\ ResolvedFor(type).value = transform.seen.emitted[type]


-----------------------------------------------------------------------------
(* The cursors of the tuple matcher *)

\* min <= max at the start of every item, at the head of every turn of either
\* loop, and after the last item (all the places walk is at before it returns)
CursorsOrdered ==
    matcher.pc \in {"item", "lookahead", "required"} => matcher.min <= matcher.max

\* what a step does to the cursors
CursorsStep ==
    /\ matcher.pc = "idle" => (matcher'.min = 0 /\ matcher'.max = 0)
    /\ matcher.pc # "idle" => (matcher'.min >= matcher.min /\ matcher'.max >= matcher.max)
    /\ matcher.pc = "lookahead" =>
           /\ matcher'.min = matcher.min
           /\ matcher'.max \in {matcher.max, matcher.max + 1}
           /\ IsOptionalItem(matcher.items[matcher.i]) => matcher'.pc # "lookahead"

\* C14: in the tuple matcher both cursors start at 0; committed <= frontier
\* (min <= max) holds at the start of every item, at the head of every retry
\* of a Required item and after the last item; neither cursor ever decreases;
\* an Optional or Variable item moves only the frontier and leaves committed
\* unchanged, an Optional item by one position at most (its loop is left
\* after one turn).
C14_CursorsOrderedAndMonotone == []CursorsOrdered /\ [][CursorsStep]_vars

\* [...string[], number] on ["a", "a", 1]: the Required item is at its second
\* turn, having failed on the first element the Variable item took
C14_Witness ==
    /\ matcher.pc = "required"
    /\ matcher.items = <<VariableItem(LeafShape(Types_String)),
                         RequiredItem(LeafShape(Types_Number))>>
    /\ matcher.d = Arr(<<Str("a"), Str("a"), Num(1)>>)
    /\ matcher.min = 1
    /\ matcher.max = 2


-----------------------------------------------------------------------------
(* Which failure a node returns *)

\* cast threw a validation error
Mismatched == CastCalled /\ outcome.kind = "throw" /\ outcome.error.kind = "ParserError"

\* the least element of a non-empty set of numbers
First(S) == CHOOSE i \in S : \A j \in S : i <= j

\* the result of validating the child x of the data, found under key, against s
ChildResult(x, s, key) == walk(x, s, <<"root", key>>, shape)

\* an Array returns the failure of its lowest failing element
ArrayFirstFailure ==
    (Mismatched /\ shape \in ArrayShapes /\ Tag(data) = "array") =>
        LET elems == Payload(data)
            result(i) == ChildResult(elems[i], Payload(shape)[2], NumberToString(i - 1))
            failing == {i \in 1..Len(elems) : result(i).r = "error"}
        IN  failing # {} /\ outcome.error = result(First(failing)).error

\* an Intersection returns the failure of its first failing member
IntersectionFirstFailure ==
    (Mismatched /\ shape \in IntersectionShapes) =>
        LET members == Tail(Payload(shape))
            result(i) == walk(data, members[i], <<"root">>, shape)
            failing == {i \in 1..Len(members) : result(i).r = "error"}
        IN  failing # {} /\ outcome.error = result(First(failing)).error

\* the result of the member m of an Object shape on the record of the call: a
\* Property checks its key, an IndexSignature the keys of the record in their
\* order and returns the failure of the first failing one
MemberResult(m) ==
    IF IsPropertyMember(m)
    THEN IF Present(data, m) THEN ChildResult(ValueAt(data, m), ValueShapeOf(m), KeyOf(m))
         ELSE IF IsOptionalMember(m) THEN Matched
         ELSE Mismatch(ExpectedDefined(m))
    ELSE LET keys == ForInKeys(data)
             result(j) == ChildResult(OwnValue(data, keys[j]), IndexShapeOf(m), keys[j])
             failing == {j \in 1..Len(keys) : result(j).r = "error"}
         IN  IF failing = {} THEN Matched ELSE result(First(failing))

\* an Object returns the failure of its first failing member
ObjectFirstFailure ==
    (Mismatched /\ shape \in ObjectShapes /\ IsRecord(data)) =>
        LET members == MembersOf(shape)
            failing == {i \in 1..Len(members) : MemberResult(members[i]).r = "error"}
        IN  failing # {} /\ outcome.error = MemberResult(members[First(failing)]).error

\* the tuple case of walk has returned an error
TupleMismatched == matcher.pc = "done" /\ matcher.result.r = "error"

\* the error of the tuple itself: elements are left over after the last item
TupleOwnError == fail(TuplePath, <<"a tuple">>, matcher.d).error

\* a Tuple returns the failure of the first element test that failed (its own
\* error when none did)
TupleFirstFailedTest ==
    TupleMismatched =>
        matcher.result.error =
            IF matcher.failed = <<>> THEN TupleOwnError ELSE matcher.failed[1]

\* a Tuple returns the failure of the last element test, which is the test of
\* a Required item one position past the frontier; once every item is done it
\* returns its own error, whatever tests have failed before
TupleLastFailedTest ==
    TupleMismatched =>
        IF matcher.i > Len(matcher.items)
        THEN matcher.result.error = TupleOwnError
        ELSE /\ IsRequiredItem(matcher.items[matcher.i])
             /\ matcher.min = matcher.max + 1
             /\ matcher.failed # <<>>
             /\ matcher.result.error = matcher.failed[Len(matcher.failed)]
             /\ matcher.result.error.path = <<"root", NumberToString(matcher.max)>>

\* C15 as stated: on a mismatch the error an Array, Object, Tuple or
\* Intersection node returns is the first failure met in processing order
\* (the lowest failing element, the first failing member, the first failing
\* tuple element test); the node returns that one error as it is, combining
\* nothing.
C15_FirstFailureReturned ==
    /\ ArrayFirstFailure
    /\ ObjectFirstFailure
    /\ IntersectionFirstFailure
    /\ TupleFirstFailedTest

\* C15, amended: the same for Array, Object and Intersection; a Tuple discards
\* the failures of the tests of its Optional and Variable items and of the
\* retries of a Required item up to the frontier, and returns the failure of
\* the Required test one position past the frontier, or its own error when
\* elements are left over after the last item.
C15_FirstFailureReturnedButTuple ==
    /\ ArrayFirstFailure
    /\ ObjectFirstFailure
    /\ IntersectionFirstFailure
    /\ TupleLastFailedTest

\* [string?, number] on ["a", "a"]: the Required item fails on the first
\* element, goes round, fails on the second, and that failure is returned
C15_Witness ==
    /\ matcher.pc = "done"
    /\ matcher.items = <<OptionalItem(LeafShape(Types_String)),
                         RequiredItem(LeafShape(Types_Number))>>
    /\ matcher.d = Arr(<<Str("a"), Str("a")>>)
    /\ Len(matcher.failed) = 2
    /\ matcher.result = Mismatch(ParserError(<<"root", "1">>, <<"a number">>, <<"a">>))


-----------------------------------------------------------------------------
(* Termination *)

Running == walker.status = "running"
Finished == walker.status = "done" /\ walker.ret.r \in {"ok", "error", "throw"}

\* C16: for finite acyclic data and a well-formed Shape whose Reference
\* cycles all pass through an Array element, an Object member or a Tuple
\* item, validation eventually terminates, with success or with an error,
\* also when the shape refers to itself and when a tuple reads past the end
\* of its data.
C16_ValidationTerminates == Running ~> Finished

\* the root is a tuple whose Required item is the root again, or nothing: on
\* [] the item reads past the end, walks undefined against the root, and the
\* run ends in success
C16_Witness ==
    /\ walker.status = "done"
    /\ walker.root = UnionShape(<<TupleShape(<<RequiredItem(ReferenceShape(<<>>))>>),
                                  LiteralShape(Undefined)>>)
    /\ walker.ret = Matched

=============================================================================
